---- MODULE Spec2Model ----
(***************************************************************************)
(* A model of the sakiko wrappers: Result (src/src/result.ts), Option and  *)
(* Future (src/unnamed/part_004, part_001), Lazy (src/src/lazy.ts) and     *)
(* toError (src/src/utils.ts).                                             *)
(*                                                                         *)
(* JavaScript values are records [type, val, id]: type is the value's      *)
(* runtime type, val its string conversion (String(v), or the message of   *)
(* an Error), id the identity of an object (0 for primitives).             *)
(***************************************************************************)
EXTENDS Naturals, Sequences, FiniteSets

VARIABLES
    res, resOp,
    resRecv,      \* the Result the last method was called on
    resArg,       \* the value given to ok / from
    resErrArg,    \* the error given to err / from
    resOther,     \* the Result given to and / or / orElse
    resGiven,     \* the callbacks given to the last call
    resCalls,     \* the callbacks the last call invoked, in order
    resRet,       \* what unwrap() / unwrapErr() did
    opt, optOp, optArg,
    optRecv,      \* the Option the last method was called on
    optOther,     \* the Option given to and / or / xor
    optGiven,     \* the callbacks (or the message) given to the last call
    optCalls,     \* the callbacks the last call invoked, in order
    optMid,       \* o.map(fn), in o.map(fn).map(gn)
    optAlt,       \* o.map(x => gn(fn(x)))
    optRet,       \* what unwrap() / expect() did
    lazyValue, fnCalls, lazyCalls, lazyOp, lazyRet, lazyRes, lazyFirst

resultVars ==
    <<res, resOp, resRecv, resArg, resErrArg, resOther, resGiven, resCalls,
      resRet>>
optionVars ==
    <<opt, optOp, optArg, optRecv, optOther, optGiven, optCalls, optMid, optAlt,
      optRet>>
lazyVars == <<lazyValue, fnCalls, lazyCalls, lazyOp, lazyRet, lazyRes, lazyFirst>>

VARIABLES
    phase,        \* "none", "constructing" (the executor is running), "returned"
    kind,         \* how the Future was built: "ctor", "ok", "err", "from"
    futGiven,     \* what Future.ok / err / from was given
    state,        \* this.state
    native,       \* the native promise the Future extends: [status, value]
    locked,       \* the native resolving functions' [[AlreadyResolved]]
    reactions,    \* reactions registered on the native promise, in order
    jobs,         \* the microtask queue
    source,       \* the promise given to Future.from: [status, value]
    following,    \* the thenable the native promise was resolved with
    hookCalls,    \* calls of the executor's resolve / reject made so far
    sync,         \* no microtask has run since the Future was returned
    awaiter,      \* "idle", "waiting", "value", "error"
    tagAtResume,  \* this.state as the awaiter's continuation reads it
    derived,      \* the promise this.then(...) of result() returns
    resultPromise \* the promise the async result() returns

futureVars ==
    <<phase, kind, state, native, locked, reactions, jobs, source, following,
      hookCalls, sync, awaiter, tagAtResume, derived, resultPromise, futGiven>>
vars == <<resultVars, optionVars, lazyVars, futureVars>>

(***************************************************************************)
(* JavaScript values                                                       *)
(***************************************************************************)
Null == [type |-> "null", val |-> "null", id |-> 0]
Undefined == [type |-> "undefined", val |-> "undefined", id |-> 0]
Num(s) == [type |-> "number", val |-> s, id |-> 0]
Str(s) == [type |-> "string", val |-> s, id |-> 0]
Bool(s) == [type |-> "boolean", val |-> s, id |-> 0]
ErrorObj(msg, i) == [type |-> "Error", val |-> msg, id |-> i]

\* The identity given to an Error object allocated by the library itself.
FreshId == 0

E1 == ErrorObj("e1", 1)
E2 == ErrorObj("e2", 2)

FalsyValues == {Num("0"), Str(""), Bool("false")}
PlainValues == FalsyValues \cup {Num("1"), Str("a"), Bool("true")}
ErrorObjects == {E1, E2}
ErrorStrings == {Str("msg"), Str("")}

\* !!v
Truthy(v) ==
    CASE v.type = "null" -> FALSE
      [] v.type = "undefined" -> FALSE
      [] v.type = "number" -> v.val \notin {"0", "NaN"}
      [] v.type = "string" -> v.val # ""
      [] v.type = "boolean" -> v.val = "true"
      [] OTHER -> TRUE

\* utils.ts: e instanceof Error ? e : new Error(e)
\* toError that makes a new Error of whatever it is given.
toErrorAlways(e) == ErrorObj(e.val, FreshId)
toError(e) ==
    IF e.type = "Error" THEN e ELSE ErrorObj(e.val, FreshId)

\* The outcome of a call: a normal return of val, or a throw of val.
Return(v) == [threw |-> FALSE, val |-> v]
Throw(v) == [threw |-> TRUE, val |-> v]

\* Caller-supplied functions, by name.
Fns == {"id", "const0", "const1", "constNull"}
Apply(fn, v) ==
    CASE fn = "id" -> v
      [] fn = "const0" -> Num("0")
      [] fn = "const1" -> Num("1")
      [] OTHER -> Null
ErrFns == {"toE2", "same"}
ApplyErr(fn, e) == IF fn = "toE2" THEN E2 ELSE e
Preds == {"always", "never", "truthy"}
Test(p, v) ==
    CASE p = "always" -> TRUE
      [] p = "never" -> FALSE
      [] OTHER -> Truthy(v)

(***************************************************************************)
(* Result (src/src/result.ts)                                              *)
(***************************************************************************)
\* new Result(value, error)
ResultNew(value, error) ==
    [value |-> value, error |-> IF error = Null THEN error ELSE toError(error)]

ResultOk(value) == ResultNew(value, Null)
ResultErr(error) == ResultNew(Null, toError(error))
ResultFrom(value, error) == ResultNew(value, error)

isOk(r) == Truthy(r.value) /\ ~Truthy(r.error)
isErr(r) == ~Truthy(r.value) /\ Truthy(r.error)
isOkAnd(r, p) == isOk(r) /\ Test(p, r.value)
isErrAnd(r, p) == isErr(r) /\ Test(p, r.error)

\* Caller-supplied functions that return a Result, by name.
ResFns == {"okSame", "ok0", "errE"}
ApplyRes(fn, v) ==
    CASE fn = "okSame" -> ResultOk(v)
      [] fn = "ok0" -> ResultOk(Num("0"))
      [] OTHER -> ResultErr(Str("e"))

\* A method that takes a callback: the Result it returns and the callbacks it
\* invoked.
ResultMapRun(r, fn) ==
    IF isOk(r) THEN [out |-> ResultNew(Apply(fn, r.value), Null), calls |-> <<fn>>]
    ELSE [out |-> ResultNew(Null, r.error), calls |-> <<>>]
ResultMap(r, fn) == ResultMapRun(r, fn).out
ResultMapErrRun(r, fn) ==
    IF isErr(r)
    THEN [out |-> ResultNew(Null, ApplyErr(fn, r.error)), calls |-> <<fn>>]
    ELSE [out |-> ResultNew(r.value, Null), calls |-> <<>>]
ResultMapErr(r, fn) == ResultMapErrRun(r, fn).out
ResultInspect(r, p) == IF isOkAnd(r, p) THEN r ELSE ResultNew(Null, r.error)
ResultInspectErr(r, p) == IF isErrAnd(r, p) THEN r ELSE ResultNew(r.value, Null)
ResultAnd(r, other) == IF isOk(r) THEN other ELSE ResultNew(Null, r.error)
ResultAndThenRun(r, fn) ==
    IF isOk(r) THEN [out |-> ApplyRes(fn, r.value), calls |-> <<fn>>]
    ELSE [out |-> ResultNew(Null, r.error), calls |-> <<>>]
ResultAndThen(r, fn) == ResultAndThenRun(r, fn).out
ResultOr(r, other) == IF isOk(r) THEN r ELSE other
\* fn is the caller's function () => other
ResultOrElse(r, other) == IF isOk(r) THEN r ELSE other

\* unwrap that throws a new Error made from the stored one's message.
ResultUnwrapWrapped(r) ==
    IF Truthy(r.error) THEN Throw(ErrorObj(r.error.val, FreshId))
    ELSE Return(r.value)
ResultUnwrap(r) == IF Truthy(r.error) THEN Throw(r.error) ELSE Return(r.value)
ResultUnwrapErr(r) ==
    IF isOk(r) THEN Throw(ErrorObj("Cannot unwrap Ok.", FreshId))
    ELSE Return(r.error)
ResultExpect(r, message) ==
    IF isErr(r) THEN Throw(ErrorObj(message, FreshId)) ELSE Return(r.value)
ResultExpectErr(r, message) ==
    IF isOk(r) THEN Throw(ErrorObj(message, FreshId)) ELSE Return(r.error)

\* The Results a caller passes as an argument, or returns from its function.
OtherResults ==
    {ResultOk(Num("2")), ResultOk(Num("0")), ResultErr(E2), ResultErr(Str("msg"))}

(***************************************************************************)
(* Option (src/unnamed/part_004)                                           *)
(***************************************************************************)
OptionNew(value) == [value |-> value]
OptionSome(value) == OptionNew(value)
OptionNone == OptionNew(Null)
OptionFrom(value) == OptionNew(value)

isSome(o) == o.value # Null
isNone(o) == o.value = Null
isSomeAnd(o, p) == isSome(o) /\ Test(p, o.value)

OptionUnwrap(o) ==
    IF isNone(o) THEN Throw(ErrorObj("Cannot unwrap None.", FreshId))
    ELSE Return(o.value)
\* expect that fails as unwrap does, with the generic message.
OptionExpectGeneric(o, message) == OptionUnwrap(o)
OptionExpect(o, message) ==
    IF isNone(o) THEN Throw(ErrorObj(message, FreshId)) ELSE Return(o.value)

\* The composition x => gn(fn(x)) of two of the functions above, which is one
\* of them again: "id" is the identity and the others ignore their argument.
Compose(fn, gn) == IF gn = "id" THEN fn ELSE gn

\* Caller-supplied functions that return an Option, by name.
OptFns == {"from", "none", "some2"}
OptThunks == {"none", "some2"}
ApplyOpt(fn, v) ==
    CASE fn = "from" -> OptionFrom(v)
      [] fn = "some2" -> OptionSome(Num("2"))
      [] OTHER -> OptionNone

\* A method that takes a callback: the Option it returns and the callbacks it
\* invoked.
\* map that does not look at the receiver: fn is invoked on None as well.
OptionMapRunEager(o, fn) ==
    [out |-> OptionNew(Apply(fn, o.value)), calls |-> <<fn>>]
OptionMapRun(o, fn) ==
    IF isSome(o) THEN [out |-> OptionNew(Apply(fn, o.value)), calls |-> <<fn>>]
    ELSE [out |-> OptionNew(Null), calls |-> <<>>]
OptionMap(o, fn) == OptionMapRun(o, fn).out
OptionAnd(o, other) == IF isSome(o) THEN other ELSE OptionNew(Null)
OptionAndThenRun(o, fn) ==
    IF isSome(o) THEN [out |-> ApplyOpt(fn, o.value), calls |-> <<fn>>]
    ELSE [out |-> OptionNew(Null), calls |-> <<>>]
OptionAndThen(o, fn) == OptionAndThenRun(o, fn).out
OptionFilter(o, p) == IF isSomeAnd(o, p) THEN o ELSE OptionNew(Null)
OptionOr(o, other) == IF isSome(o) THEN o ELSE other
\* orElse that invokes fn before it looks at the receiver.
OptionOrElseRunEager(o, fn) ==
    [out |-> IF isSome(o) THEN o ELSE ApplyOpt(fn, Undefined), calls |-> <<fn>>]
OptionOrElseRun(o, fn) ==
    IF isSome(o) THEN [out |-> o, calls |-> <<>>]
    ELSE [out |-> ApplyOpt(fn, Undefined), calls |-> <<fn>>]
OptionOrElse(o, fn) == OptionOrElseRun(o, fn).out
OptionXor(o, other) == IF isSome(o) # isSome(other) THEN o ELSE OptionNew(Null)

OptionInputs == PlainValues \cup {Null, Undefined}
OtherOptions == {OptionNew(Num("2")), OptionNew(Null), OptionNew(Num("0"))}

(***************************************************************************)
(* Lazy (src/src/lazy.ts)                                                  *)
(***************************************************************************)
NOT_COMPUTED == [type |-> "symbol", val |-> "not computed", id |-> 9]

\* What one invocation of the producer may do: return a value or throw.
LazyValues == {Num("0"), Num("42"), Str("a"), Undefined}
LazyThrown == {E1, Str("boom")}
ProducerOutcomes ==
    {Return(v) : v \in LazyValues} \cup {Throw(t) : t \in LazyThrown}

\* get() on a Lazy whose field is value, prod being what the producer does if
\* it is invoked: the new field, the outcome, and the number of invocations.
LazyGet(value, prod) ==
    IF value = NOT_COMPUTED
    THEN IF prod.threw
         THEN [value |-> value, out |-> Throw(prod.val), invoked |-> 1]
         ELSE [value |-> prod.val, out |-> Return(prod.val), invoked |-> 1]
    ELSE [value |-> value, out |-> Return(value), invoked |-> 0]

\* result() without its catch: what the producer throws reaches the caller.
LazyResultNoCatch(value, prod) ==
    LET g == LazyGet(value, prod)
    IN  [value |-> g.value, invoked |-> g.invoked, got |-> g.out,
         out |-> IF g.out.threw
                 THEN [threw |-> TRUE, res |-> ResultNew(Null, Null)]
                 ELSE [threw |-> FALSE, res |-> ResultOk(g.out.val)]]

\* result(): try { return Result.ok(this.get()) } catch (e) { return Result.err(e) }
LazyResult(value, prod) ==
    LET g == LazyGet(value, prod)
    IN  [value |-> g.value, invoked |-> g.invoked, got |-> g.out,
         out |-> IF g.out.threw
                 THEN [threw |-> FALSE, res |-> ResultErr(g.out.val)]
                 ELSE [threw |-> FALSE, res |-> ResultOk(g.out.val)]]

(***************************************************************************)
(* Native promises                                                         *)
(***************************************************************************)
PendingPromise == [status |-> "pending", value |-> Undefined]
Fulfilled(v) == [status |-> "fulfilled", value |-> v]
Rejected(e) == [status |-> "rejected", value |-> e]

\* A promise passed to resolve as the value.
Thenable == [type |-> "promise", val |-> "[object Promise]", id |-> 3]

Job(k, ok, arg) == [kind |-> k, ok |-> ok, arg |-> arg]
ReactionJobs(rs, p) ==
    [i \in 1..Len(rs) |-> Job(rs[i], p.status = "fulfilled", p.value)]

\* The part of the state a settlement acts on.
World == [state |-> state, native |-> native, locked |-> locked,
          reactions |-> reactions, jobs |-> jobs]

\* FulfillPromise / RejectPromise: the reactions become jobs.
Settle(w, p) ==
    [w EXCEPT !.native = p,
              !.jobs = w.jobs \o ReactionJobs(w.reactions, p),
              !.reactions = <<>>]

\* The resolve function the Promise constructor hands to its executor.
NativeResolve(w, x) ==
    IF w.locked THEN w
    ELSE IF x.type = "promise"
         THEN [w EXCEPT !.locked = TRUE,
                        !.jobs = Append(w.jobs, Job("adopt", TRUE, x))]
         ELSE Settle([w EXCEPT !.locked = TRUE], Fulfilled(x))

\* The reject function the Promise constructor hands to its executor.
NativeReject(w, e) ==
    IF w.locked THEN w ELSE Settle([w EXCEPT !.locked = TRUE], Rejected(e))

\* promise.then(...) on the native promise: a reaction, or a job if settled.
Register(w, k) ==
    IF w.native.status = "pending"
    THEN [w EXCEPT !.reactions = Append(w.reactions, k)]
    ELSE [w EXCEPT !.jobs = w.jobs \o ReactionJobs(<<k>>, w.native)]

(***************************************************************************)
(* Future (src/unnamed/part_001, lines 149-270)                            *)
(***************************************************************************)
\* value => { this.state = 'Fulfilled'; resolve(value) }
ResolveHook(w, value) == NativeResolve([w EXCEPT !.state = "Fulfilled"], value)

\* error => { this.state = 'Rejected'; reject(error) }
RejectHook(w, error) == NativeReject([w EXCEPT !.state = "Rejected"], error)

isPending == state = "Pending"
isFulfilled == state = "Fulfilled"
isRejected == state = "Rejected"

\* result() as this.then(value => Result.ok(value)): no rejection handler, so
\* the promise then() returns is rejected with the Future's rejection.
ResultHandlerNoCatch(ok, arg) ==
    IF ok THEN [status |-> "fulfilled", result |-> ResultOk(arg)]
    ELSE [status |-> "rejected", result |-> ResultNew(Null, arg)]

\* The handlers of result(): value => Result.ok(value), error => Result.err(error);
\* the promise then() returns is fulfilled with what the handler returns.
ResultHandler(ok, arg) ==
    IF ok THEN [status |-> "fulfilled", result |-> ResultOk(arg)]
    ELSE [status |-> "fulfilled", result |-> ResultErr(arg)]

NoResult == [status |-> "none", result |-> ResultNew(Null, Null)]
PendingResult == [status |-> "pending", result |-> ResultNew(Null, Null)]

\* value.then(resolve).catch(reject) on the promise given to Future.from.
SourceJobs(p) ==
    IF p.status = "fulfilled" THEN <<Job("thenResolve", TRUE, p.value)>>
    ELSE IF p.status = "rejected" THEN <<Job("thenPass", FALSE, p.value)>>
    ELSE <<>>

\* Future.from with an executor that settles at once when p is settled, as
\* new Future(resolve => resolve(v)) would.
FutureFromSync(w, p) ==
    IF p.status = "fulfilled"
    THEN ResolveHook([w EXCEPT !.state = "Pending"], p.value)
    ELSE IF p.status = "rejected"
         THEN RejectHook([w EXCEPT !.state = "Pending"], p.value)
         ELSE [w EXCEPT !.state = "Pending"]

\* new Future(executor) with the executor of Future.from, value being p:
\* this.state = 'Pending', then value.then(resolve).catch(reject).
FutureFrom(w, p) ==
    [w EXCEPT !.state = "Pending", !.jobs = w.jobs \o SourceJobs(p)]


(***************************************************************************)
(* Initial states                                                          *)
(***************************************************************************)
MaxLazyCalls == 3
MaxHookCalls == 3

InitResult ==
    /\ res = ResultOk(Num("1"))
    /\ resOp = "ok"
    /\ resRecv = ResultOk(Num("1"))
    /\ resArg = Num("1")
    /\ resErrArg = Null
    /\ resOther = ResultOk(Num("1"))
    /\ resGiven = <<>>
    /\ resCalls = <<>>
    /\ resRet = Return(Undefined)
InitOption ==
    /\ opt = OptionNone
    /\ optOp = "none"
    /\ optArg = Null
    /\ optRecv = OptionNone
    /\ optOther = OptionNone
    /\ optGiven = <<>>
    /\ optCalls = <<>>
    /\ optMid = OptionNone
    /\ optAlt = OptionNone
    /\ optRet = Return(Undefined)
InitLazy ==
    /\ lazyValue = NOT_COMPUTED
    /\ fnCalls = 0
    /\ lazyCalls = 0
    /\ lazyOp = "new"
    /\ lazyRet = Return(Undefined)
    /\ lazyRes = [threw |-> FALSE, res |-> ResultNew(Null, Null)]
    /\ lazyFirst = Return(Undefined)
InitFuture ==
    /\ phase = "none"
    /\ kind = "none"
    /\ futGiven = Undefined
    /\ state = "Unset"
    /\ native = PendingPromise
    /\ locked = FALSE
    /\ reactions = <<>>
    /\ jobs = <<>>
    /\ source = [status |-> "none", value |-> Undefined]
    /\ following = [registered |-> FALSE, promise |-> PendingPromise]
    /\ hookCalls = 0
    /\ sync = TRUE
    /\ awaiter = "idle"
    /\ tagAtResume = "Unset"
    /\ derived = [promise |-> NoResult, watched |-> FALSE]
    /\ resultPromise = NoResult
Init == InitResult /\ InitOption /\ InitLazy /\ InitFuture

(***************************************************************************)
(* Result: the calls a caller makes                                        *)
(***************************************************************************)
OkInputs == PlainValues \cup {Null}
Messages == {"error", "why"}
ErrInputs == ErrorObjects \cup ErrorStrings

\* What a call leaves behind: the Result it returned and what it was given.
ResultStep(op, out, arg, errArg, other, given, calls, ret) ==
    /\ res' = out
    /\ resOp' = op
    /\ resRecv' = res
    /\ resArg' = arg
    /\ resErrArg' = errArg
    /\ resOther' = other
    /\ resGiven' = given
    /\ resCalls' = calls
    /\ resRet' = ret
NoReturn == Return(Undefined)

CallResultOk ==
    /\ \E v \in OkInputs :
           ResultStep("ok", ResultOk(v), v, Null, res, <<>>, <<>>, NoReturn)
    /\ UNCHANGED <<optionVars, lazyVars, futureVars>>
CallResultErr ==
    /\ \E e \in ErrInputs :
           ResultStep("err", ResultErr(e), Null, e, res, <<>>, <<>>, NoReturn)
    /\ UNCHANGED <<optionVars, lazyVars, futureVars>>
CallResultFrom ==
    /\ \E v \in OkInputs, e \in ErrInputs \cup {Null} :
           ResultStep("from", ResultFrom(v, e), v, e, res, <<>>, <<>>, NoReturn)
    /\ UNCHANGED <<optionVars, lazyVars, futureVars>>
CallResultMap ==
    /\ \E fn \in Fns :
           LET r == ResultMapRun(res, fn)
           IN  ResultStep("map", r.out, Null, Null, res, <<fn>>, r.calls, NoReturn)
    /\ UNCHANGED <<optionVars, lazyVars, futureVars>>
CallResultMapErr ==
    /\ \E fn \in ErrFns :
           LET r == ResultMapErrRun(res, fn)
           IN  ResultStep("mapErr", r.out, Null, Null, res, <<fn>>, r.calls,
                          NoReturn)
    /\ UNCHANGED <<optionVars, lazyVars, futureVars>>
CallResultInspect ==
    /\ \E p \in Preds :
           ResultStep("inspect", ResultInspect(res, p), Null, Null, res, <<p>>,
                      <<>>, NoReturn)
    /\ UNCHANGED <<optionVars, lazyVars, futureVars>>
CallResultInspectErr ==
    /\ \E p \in Preds :
           ResultStep("inspectErr", ResultInspectErr(res, p), Null, Null, res,
                      <<p>>, <<>>, NoReturn)
    /\ UNCHANGED <<optionVars, lazyVars, futureVars>>
CallResultAnd ==
    /\ \E o \in OtherResults :
           ResultStep("and", ResultAnd(res, o), Null, Null, o, <<>>, <<>>,
                      NoReturn)
    /\ UNCHANGED <<optionVars, lazyVars, futureVars>>
CallResultAndThen ==
    /\ \E fn \in ResFns :
           LET r == ResultAndThenRun(res, fn)
           IN  ResultStep("andThen", r.out, Null, Null, res, <<fn>>, r.calls,
                          NoReturn)
    /\ UNCHANGED <<optionVars, lazyVars, futureVars>>
CallResultOr ==
    /\ \E o \in OtherResults :
           ResultStep("or", ResultOr(res, o), Null, Null, o, <<>>, <<>>, NoReturn)
    /\ UNCHANGED <<optionVars, lazyVars, futureVars>>
CallResultOrElse ==
    /\ \E o \in OtherResults :
           ResultStep("orElse", ResultOrElse(res, o), Null, Null, o, <<>>, <<>>,
                      NoReturn)
    /\ UNCHANGED <<optionVars, lazyVars, futureVars>>
CallResultUnwrap ==
    /\ ResultStep("unwrap", res, Null, Null, res, <<>>, <<>>, ResultUnwrap(res))
    /\ UNCHANGED <<optionVars, lazyVars, futureVars>>
CallResultUnwrapErr ==
    /\ ResultStep("unwrapErr", res, Null, Null, res, <<>>, <<>>,
                  ResultUnwrapErr(res))
    /\ UNCHANGED <<optionVars, lazyVars, futureVars>>
CallResultExpect ==
    /\ \E message \in Messages :
           ResultStep("expect", res, Null, Null, res, <<message>>, <<>>,
                      ResultExpect(res, message))
    /\ UNCHANGED <<optionVars, lazyVars, futureVars>>
CallResultExpectErr ==
    /\ \E message \in Messages :
           ResultStep("expectErr", res, Null, Null, res, <<message>>, <<>>,
                      ResultExpectErr(res, message))
    /\ UNCHANGED <<optionVars, lazyVars, futureVars>>

NextResult ==
    \/ CallResultOk
    \/ CallResultErr
    \/ CallResultFrom
    \/ CallResultMap
    \/ CallResultMapErr
    \/ CallResultInspect
    \/ CallResultInspectErr
    \/ CallResultAnd
    \/ CallResultAndThen
    \/ CallResultOr
    \/ CallResultOrElse
    \/ CallResultUnwrap
    \/ CallResultUnwrapErr
    \/ CallResultExpect
    \/ CallResultExpectErr

SpecResult == Init /\ [][NextResult]_vars

(***************************************************************************)
(* Option: the calls a caller makes                                        *)
(***************************************************************************)
\* What a call leaves behind: the Option it returned and what it was given.
OptionStep(op, out, arg, other, given, calls) ==
    /\ opt' = out
    /\ optOp' = op
    /\ optArg' = arg
    /\ optRecv' = opt
    /\ optOther' = other
    /\ optGiven' = given
    /\ optCalls' = calls

\* A call that is neither a double map nor an unwrap leaves nothing else behind.
OptionPlain ==
    /\ optMid' = OptionNone
    /\ optAlt' = OptionNone
    /\ optRet' = Return(Undefined)

CallOptionFrom ==
    /\ \E v \in OptionInputs :
           OptionStep("from", OptionFrom(v), v, OptionNone, <<>>, <<>>)
    /\ OptionPlain
    /\ UNCHANGED <<resultVars, lazyVars, futureVars>>
CallOptionSome ==
    /\ \E v \in OptionInputs :
           OptionStep("some", OptionSome(v), v, OptionNone, <<>>, <<>>)
    /\ OptionPlain
    /\ UNCHANGED <<resultVars, lazyVars, futureVars>>
CallOptionNone ==
    /\ OptionStep("none", OptionNone, Null, OptionNone, <<>>, <<>>)
    /\ OptionPlain
    /\ UNCHANGED <<resultVars, lazyVars, futureVars>>
CallOptionMap ==
    /\ \E fn \in Fns :
           LET r == OptionMapRun(opt, fn)
           IN  OptionStep("map", r.out, opt.value, OptionNone, <<fn>>, r.calls)
    /\ OptionPlain
    /\ UNCHANGED <<resultVars, lazyVars, futureVars>>
\* o.map(fn).map(gn), and o.map(x => gn(fn(x))) beside it.
CallOptionMapTwice ==
    /\ \E fn \in Fns, gn \in Fns :
           LET a == OptionMapRun(opt, fn)
               b == OptionMapRun(a.out, gn)
           IN  /\ OptionStep("mapTwice", b.out, opt.value, OptionNone,
                             <<fn, gn>>, a.calls \o b.calls)
               /\ optMid' = a.out
               /\ optAlt' = OptionMap(opt, Compose(fn, gn))
    /\ optRet' = Return(Undefined)
    /\ UNCHANGED <<resultVars, lazyVars, futureVars>>
CallOptionFilter ==
    /\ \E p \in Preds :
           OptionStep("filter", OptionFilter(opt, p), opt.value, OptionNone,
                      <<p>>, <<>>)
    /\ OptionPlain
    /\ UNCHANGED <<resultVars, lazyVars, futureVars>>
CallOptionAnd ==
    /\ \E o \in OtherOptions :
           OptionStep("and", OptionAnd(opt, o), o.value, o, <<>>, <<>>)
    /\ OptionPlain
    /\ UNCHANGED <<resultVars, lazyVars, futureVars>>
CallOptionAndThen ==
    /\ \E fn \in OptFns :
           LET r == OptionAndThenRun(opt, fn)
           IN  OptionStep("andThen", r.out, opt.value, OptionNone, <<fn>>, r.calls)
    /\ OptionPlain
    /\ UNCHANGED <<resultVars, lazyVars, futureVars>>
CallOptionOr ==
    /\ \E o \in OtherOptions :
           OptionStep("or", OptionOr(opt, o), o.value, o, <<>>, <<>>)
    /\ OptionPlain
    /\ UNCHANGED <<resultVars, lazyVars, futureVars>>
CallOptionOrElse ==
    /\ \E fn \in OptThunks :
           LET r == OptionOrElseRun(opt, fn)
           IN  OptionStep("orElse", r.out, opt.value, OptionNone, <<fn>>, r.calls)
    /\ OptionPlain
    /\ UNCHANGED <<resultVars, lazyVars, futureVars>>
CallOptionXor ==
    /\ \E o \in OtherOptions :
           OptionStep("xor", OptionXor(opt, o), o.value, o, <<>>, <<>>)
    /\ OptionPlain
    /\ UNCHANGED <<resultVars, lazyVars, futureVars>>
CallOptionUnwrap ==
    /\ OptionStep("unwrap", opt, opt.value, OptionNone, <<>>, <<>>)
    /\ optRet' = OptionUnwrap(opt)
    /\ optMid' = OptionNone
    /\ optAlt' = OptionNone
    /\ UNCHANGED <<resultVars, lazyVars, futureVars>>
CallOptionExpect ==
    /\ \E message \in Messages :
           /\ OptionStep("expect", opt, opt.value, OptionNone, <<message>>, <<>>)
           /\ optRet' = OptionExpect(opt, message)
    /\ optMid' = OptionNone
    /\ optAlt' = OptionNone
    /\ UNCHANGED <<resultVars, lazyVars, futureVars>>

NextOption ==
    \/ CallOptionFrom
    \/ CallOptionSome
    \/ CallOptionNone
    \/ CallOptionMap
    \/ CallOptionMapTwice
    \/ CallOptionFilter
    \/ CallOptionAnd
    \/ CallOptionAndThen
    \/ CallOptionOr
    \/ CallOptionOrElse
    \/ CallOptionXor
    \/ CallOptionUnwrap
    \/ CallOptionExpect

SpecOption == Init /\ [][NextOption]_vars

(***************************************************************************)
(* Lazy: the calls a caller makes on one Lazy                              *)
(***************************************************************************)
CallLazyGet ==
    /\ lazyCalls < MaxLazyCalls
    /\ \E prod \in ProducerOutcomes :
          LET g == LazyGet(lazyValue, prod)
          IN  /\ lazyValue' = g.value
              /\ fnCalls' = fnCalls + g.invoked
              /\ lazyRet' = g.out
              /\ lazyFirst' = IF lazyCalls = 0 THEN g.out ELSE lazyFirst
    /\ lazyCalls' = lazyCalls + 1
    /\ lazyOp' = "get"
    /\ UNCHANGED lazyRes
    /\ UNCHANGED <<resultVars, optionVars, futureVars>>

CallLazyResult ==
    /\ lazyCalls < MaxLazyCalls
    /\ \E prod \in ProducerOutcomes :
          LET r == LazyResult(lazyValue, prod)
          IN  /\ lazyValue' = r.value
              /\ fnCalls' = fnCalls + r.invoked
              /\ lazyRet' = r.got
              /\ lazyRes' = r.out
              /\ lazyFirst' = IF lazyCalls = 0 THEN r.got ELSE lazyFirst
    /\ lazyCalls' = lazyCalls + 1
    /\ lazyOp' = "result"
    /\ UNCHANGED <<resultVars, optionVars, futureVars>>

NextLazy ==
    \/ CallLazyGet
    \/ CallLazyResult

SpecLazy == Init /\ [][NextLazy]_vars

(***************************************************************************)
(* Future: construction, the executor's calls, the microtasks, the callers *)
(***************************************************************************)
ResolveInputs == {Num("0"), Num("1"), Thenable}
RejectInputs == {E1, Str("msg")}
SourcePromises ==
    {PendingPromise, Fulfilled(Num("0")), Fulfilled(Num("1")), Rejected(E1)}
Outcomes == {Fulfilled(Num("0")), Fulfilled(Num("1")), Rejected(E1)}

SetWorld(w) ==
    /\ state' = w.state
    /\ native' = w.native
    /\ locked' = w.locked
    /\ reactions' = w.reactions
    /\ jobs' = w.jobs

\* The state a microtask starts from: the call stack is empty, the job is popped.
CanRun(k) == phase = "returned" /\ jobs # <<>> /\ Head(jobs).kind = k
Popped == [World EXCEPT !.jobs = Tail(jobs)]

\* new Future(executor): super(...), this.state = 'Pending', executor(...) begins.
NewFuture ==
    /\ phase = "none"
    /\ phase' = "constructing"
    /\ kind' = "ctor"
    /\ state' = "Pending"
    /\ UNCHANGED <<native, locked, reactions, jobs, source, following, hookCalls,
                   sync, awaiter, tagAtResume, derived, resultPromise>>
    /\ UNCHANGED <<resultVars, optionVars, lazyVars, futGiven>>

\* The executor returns, and with it the constructor.
ExecutorReturns ==
    /\ phase = "constructing"
    /\ phase' = "returned"
    /\ UNCHANGED <<kind, state, native, locked, reactions, jobs, source, following,
                   hookCalls, sync, awaiter, tagAtResume, derived, resultPromise>>
    /\ UNCHANGED <<resultVars, optionVars, lazyVars, futGiven>>

\* The executor, or a callback it left behind, calls resolve(x).
CallResolve ==
    /\ kind = "ctor"
    /\ hookCalls < MaxHookCalls
    /\ \E x \in ResolveInputs : SetWorld(ResolveHook(World, x))
    /\ hookCalls' = hookCalls + 1
    /\ UNCHANGED <<phase, kind, source, following, sync, awaiter, tagAtResume,
                   derived, resultPromise>>
    /\ UNCHANGED <<resultVars, optionVars, lazyVars, futGiven>>

\* The executor, or a callback it left behind, calls reject(e).
CallReject ==
    /\ kind = "ctor"
    /\ hookCalls < MaxHookCalls
    /\ \E e \in RejectInputs : SetWorld(RejectHook(World, e))
    /\ hookCalls' = hookCalls + 1
    /\ UNCHANGED <<phase, kind, source, following, sync, awaiter, tagAtResume,
                   derived, resultPromise>>
    /\ UNCHANGED <<resultVars, optionVars, lazyVars, futGiven>>

\* Future.from(p), and Future.ok / Future.err which call it.
Build(k, p, given) ==
    /\ phase' = "returned"
    /\ kind' = k
    /\ futGiven' = given
    /\ source' = p
    /\ SetWorld(FutureFrom(World, p))
    /\ UNCHANGED <<following, hookCalls, sync, awaiter, tagAtResume, derived,
                   resultPromise>>
    /\ UNCHANGED <<resultVars, optionVars, lazyVars>>

\* Future.ok(value): Future.from(Promise.resolve(value))
CallFutureOk ==
    /\ phase = "none"
    /\ \E v \in {Num("0"), Num("1")} : Build("ok", Fulfilled(v), v)

\* Future.err(error): Future.from(Promise.reject(toError(error)))
CallFutureErr ==
    /\ phase = "none"
    /\ \E e \in RejectInputs : Build("err", Rejected(toError(e)), e)

\* Future.from(promise)
CallFutureFrom ==
    /\ phase = "none"
    /\ \E p \in SourcePromises : Build("from", p, Thenable)

\* The promise given to Future.from settles.
SourceSettles ==
    /\ kind = "from"
    /\ source.status = "pending"
    /\ \E p \in Outcomes :
          /\ source' = p
          /\ jobs' = jobs \o SourceJobs(p)
    /\ UNCHANGED <<phase, kind, state, native, locked, reactions, following,
                   hookCalls, sync, awaiter, tagAtResume, derived, resultPromise>>
    /\ UNCHANGED <<resultVars, optionVars, lazyVars, futGiven>>

\* The promise the executor may pass to resolve settles.
ThenableSettles ==
    /\ kind = "ctor"
    /\ following.promise.status = "pending"
    /\ \E p \in Outcomes :
          /\ following' = [following EXCEPT !.promise = p]
          /\ jobs' = IF following.registered
                     THEN jobs \o ReactionJobs(<<"adoptSettle">>, p)
                     ELSE jobs
    /\ UNCHANGED <<phase, kind, state, native, locked, reactions, source,
                   hookCalls, sync, awaiter, tagAtResume, derived, resultPromise>>
    /\ UNCHANGED <<resultVars, optionVars, lazyVars, futGiven>>

\* Job of p.then(resolve), p fulfilled: resolve(value).
RunThenResolve ==
    /\ CanRun("thenResolve")
    /\ SetWorld(ResolveHook(Popped, Head(jobs).arg))
    /\ sync' = FALSE
    /\ UNCHANGED <<phase, kind, source, following, hookCalls, awaiter,
                   tagAtResume, derived, resultPromise>>
    /\ UNCHANGED <<resultVars, optionVars, lazyVars, futGiven>>

\* Job of p.then(resolve), p rejected: the rejection passes on to .catch(reject).
RunThenPass ==
    /\ CanRun("thenPass")
    /\ jobs' = Append(Tail(jobs), Job("catchReject", FALSE, Head(jobs).arg))
    /\ sync' = FALSE
    /\ UNCHANGED <<phase, kind, state, native, locked, reactions, source,
                   following, hookCalls, awaiter, tagAtResume, derived,
                   resultPromise>>
    /\ UNCHANGED <<resultVars, optionVars, lazyVars, futGiven>>

\* Job of .catch(reject): reject(error).
RunCatchReject ==
    /\ CanRun("catchReject")
    /\ SetWorld(RejectHook(Popped, Head(jobs).arg))
    /\ sync' = FALSE
    /\ UNCHANGED <<phase, kind, source, following, hookCalls, awaiter,
                   tagAtResume, derived, resultPromise>>
    /\ UNCHANGED <<resultVars, optionVars, lazyVars, futGiven>>

\* NewPromiseResolveThenableJob: thenable.then(resolvePromise, rejectPromise).
RunAdopt ==
    /\ CanRun("adopt")
    /\ following' = [following EXCEPT !.registered = TRUE]
    /\ jobs' = IF following.promise.status = "pending"
               THEN Tail(jobs)
               ELSE Tail(jobs) \o ReactionJobs(<<"adoptSettle">>, following.promise)
    /\ sync' = FALSE
    /\ UNCHANGED <<phase, kind, state, native, locked, reactions, source,
                   hookCalls, awaiter, tagAtResume, derived, resultPromise>>
    /\ UNCHANGED <<resultVars, optionVars, lazyVars, futGiven>>

\* The thenable's reaction: the native promise settles as the thenable did.
RunAdoptSettle ==
    /\ CanRun("adoptSettle")
    /\ SetWorld(Settle(Popped, following.promise))
    /\ sync' = FALSE
    /\ UNCHANGED <<phase, kind, source, following, hookCalls, awaiter,
                   tagAtResume, derived, resultPromise>>
    /\ UNCHANGED <<resultVars, optionVars, lazyVars, futGiven>>

\* A caller writes: await future.
AwaitFuture ==
    /\ phase = "returned"
    /\ awaiter = "idle"
    /\ awaiter' = "waiting"
    /\ jobs' = Append(jobs, Job("awaitAdopt", TRUE, Undefined))
    /\ UNCHANGED <<phase, kind, state, native, locked, reactions, source,
                   following, hookCalls, sync, tagAtResume, derived, resultPromise>>
    /\ UNCHANGED <<resultVars, optionVars, lazyVars, futGiven>>

\* await's job: future.then(...) registers on the native promise.
RunAwaitAdopt ==
    /\ CanRun("awaitAdopt")
    /\ SetWorld(Register(Popped, "awaitSettle"))
    /\ sync' = FALSE
    /\ UNCHANGED <<phase, kind, source, following, hookCalls, awaiter,
                   tagAtResume, derived, resultPromise>>
    /\ UNCHANGED <<resultVars, optionVars, lazyVars, futGiven>>

\* The awaited promise settles as the Future did; the continuation is queued.
RunAwaitSettle ==
    /\ CanRun("awaitSettle")
    /\ jobs' = Append(Tail(jobs), Job("await", Head(jobs).ok, Head(jobs).arg))
    /\ sync' = FALSE
    /\ UNCHANGED <<phase, kind, state, native, locked, reactions, source,
                   following, hookCalls, awaiter, tagAtResume, derived,
                   resultPromise>>
    /\ UNCHANGED <<resultVars, optionVars, lazyVars, futGiven>>

\* The awaiter resumes, with the value or with the rejection thrown.
RunAwait ==
    /\ CanRun("await")
    /\ awaiter' = IF Head(jobs).ok THEN "value" ELSE "error"
    /\ tagAtResume' = state
    /\ jobs' = Tail(jobs)
    /\ sync' = FALSE
    /\ UNCHANGED <<phase, kind, state, native, locked, reactions, source,
                   following, hookCalls, derived, resultPromise>>
    /\ UNCHANGED <<resultVars, optionVars, lazyVars, futGiven>>

\* future.result(): this.then(onOk, onErr) registers, the async function
\* returns the promise then() made, which its own promise adopts.
CallResult ==
    /\ phase = "returned"
    /\ resultPromise.status = "none"
    /\ LET w == Register(World, "result")
       IN  SetWorld([w EXCEPT !.jobs = Append(w.jobs, Job("rpAdopt", TRUE, Undefined))])
    /\ derived' = [promise |-> PendingResult, watched |-> FALSE]
    /\ resultPromise' = PendingResult
    /\ UNCHANGED <<phase, kind, source, following, hookCalls, sync, awaiter,
                   tagAtResume>>
    /\ UNCHANGED <<resultVars, optionVars, lazyVars, futGiven>>

\* Job of this.then(onOk, onErr): the handler runs and settles then()'s promise.
RunResult ==
    /\ CanRun("result")
    /\ derived' = [derived EXCEPT
                     !.promise = ResultHandler(Head(jobs).ok, Head(jobs).arg)]
    /\ jobs' = IF derived.watched
               THEN Append(Tail(jobs), Job("rpSettle", TRUE, Undefined))
               ELSE Tail(jobs)
    /\ sync' = FALSE
    /\ UNCHANGED <<phase, kind, state, native, locked, reactions, source,
                   following, hookCalls, awaiter, tagAtResume, resultPromise>>
    /\ UNCHANGED <<resultVars, optionVars, lazyVars, futGiven>>

\* The async function's promise adopts then()'s promise.
RunRpAdopt ==
    /\ CanRun("rpAdopt")
    /\ derived' = [derived EXCEPT !.watched = TRUE]
    /\ jobs' = IF derived.promise.status = "pending"
               THEN Tail(jobs)
               ELSE Append(Tail(jobs), Job("rpSettle", TRUE, Undefined))
    /\ sync' = FALSE
    /\ UNCHANGED <<phase, kind, state, native, locked, reactions, source,
                   following, hookCalls, awaiter, tagAtResume, resultPromise>>
    /\ UNCHANGED <<resultVars, optionVars, lazyVars, futGiven>>

\* The promise result() returned settles as then()'s promise did.
RunRpSettle ==
    /\ CanRun("rpSettle")
    /\ resultPromise' = derived.promise
    /\ jobs' = Tail(jobs)
    /\ sync' = FALSE
    /\ UNCHANGED <<phase, kind, state, native, locked, reactions, source,
                   following, hookCalls, awaiter, tagAtResume, derived>>
    /\ UNCHANGED <<resultVars, optionVars, lazyVars, futGiven>>

Next ==
    \/ NewFuture
    \/ ExecutorReturns
    \/ CallResolve
    \/ CallReject
    \/ CallFutureOk
    \/ CallFutureErr
    \/ CallFutureFrom
    \/ SourceSettles
    \/ ThenableSettles
    \/ RunThenResolve
    \/ RunThenPass
    \/ RunCatchReject
    \/ RunAdopt
    \/ RunAdoptSettle
    \/ AwaitFuture
    \/ RunAwaitAdopt
    \/ RunAwaitSettle
    \/ RunAwait
    \/ CallResult
    \/ RunResult
    \/ RunRpAdopt
    \/ RunRpSettle

Spec == Init /\ [][Next]_vars

\* The places that take an error-or-string: Result's factories and methods,
\* and Future.err.
NextNormalize == NextResult \/ CallFutureErr
SpecNormalize == Init /\ [][NextNormalize]_vars

(***************************************************************************)
(* Properties                                                              *)
(***************************************************************************)

\* C1: a Result built by Result.ok(v), v any value other than null (0, "" and
\* false among them), reports isOk() and does not report isErr().
C1_OkReportsOk ==
    (resOp = "ok" /\ res.value # Null) => (isOk(res) /\ ~isErr(res))

\* C2: every Result built by ok, err or from and then derived by map, mapErr,
\* and, andThen, or, orElse, inspect, inspectErr, and holding a value other
\* than null or an error, reports exactly one of isOk() and isErr(), and
\* reports isOk() exactly when its error is null.
C2_ExactlyOneState ==
    (res.value # Null \/ res.error # Null) =>
        /\ isOk(res) # isErr(res)
        /\ isOk(res) <=> (res.error = Null)

\* C3: once the state of a Future is Fulfilled or Rejected, no later call of
\* resolve or reject changes it.
C3_SettlesOnce ==
    [][(state \in {"Fulfilled", "Rejected"}) => (state' = state)]_vars

\* C4: a Future built with new Future(executor) reports isPending() for as long
\* as its promise is unsettled, reports exactly one of isFulfilled() and
\* isRejected() once it has settled, and never reports two of the three.
C4_PendingUntilSettled ==
    kind = "ctor" =>
        /\ native.status = "pending" => isPending
        /\ native.status # "pending" => (~isPending /\ (isFulfilled # isRejected))
        /\ ~(isPending /\ isFulfilled)
        /\ ~(isPending /\ isRejected)
        /\ ~(isFulfilled /\ isRejected)

\* C5: an awaiter that resumes with the fulfilled value reads isFulfilled(),
\* and one that resumes with the rejection reads isRejected().
C5_TagCommittedBeforeResume ==
    /\ awaiter = "value" => tagAtResume = "Fulfilled"
    /\ awaiter = "error" => tagAtResume = "Rejected"

\* C6: a Future returned by Future.ok, Future.err or Future.from reports
\* isPending() until a microtask has run, also when the promise it was given
\* is settled already; it leaves Pending only after that promise has settled
\* and its reaction has run.
C6_StaticPendingOnReturn ==
    kind \in {"ok", "err", "from"} =>
        /\ sync => isPending
        /\ ~isPending => (~sync /\ source.status # "pending")

\* C6 witness: Future.from has returned for a promise that is fulfilled, no
\* microtask has run, and the Future reports isPending().
C6_Witness ==
    /\ kind = "from"
    /\ phase = "returned"
    /\ source.status = "fulfilled"
    /\ sync
    /\ isPending

\* C7: the promise result() returns is never rejected; when it is fulfilled
\* the Future's promise has settled, and it holds Result(value, null) if that
\* promise was fulfilled with value and Result(null, toError(error)) if it was
\* rejected with error: its error is null exactly when the promise fulfilled.
C7_ResultNeverRejects ==
    /\ resultPromise.status # "rejected"
    /\ resultPromise.status = "fulfilled" =>
          /\ native.status # "pending"
          /\ (resultPromise.result.error = Null) <=> (native.status = "fulfilled")
          /\ native.status = "fulfilled" =>
                resultPromise.result.value = native.value
          /\ native.status = "rejected" =>
                /\ resultPromise.result.value = Null
                /\ resultPromise.result.error = toError(native.value)
                /\ isErr(resultPromise.result)

\* C7 witness: result() of a Future rejected with the string "msg" has
\* fulfilled, with an Err that holds an Error of that message.
C7_Witness ==
    /\ resultPromise.status = "fulfilled"
    /\ native = Rejected(Str("msg"))
    /\ resultPromise.result.error = ErrorObj("msg", FreshId)

\* C8: the producer of a Lazy is not invoked before the first call of get() /
\* result(), has been invoked exactly once after any number of calls, and
\* every call after the first ends as the first did.
C8_ProducerRunsOnce ==
    /\ lazyCalls = 0 => fnCalls = 0
    /\ lazyCalls >= 1 => fnCalls = 1
    /\ lazyCalls >= 2 => lazyRet = lazyFirst

\* C9: Lazy.result() does not throw; it returns Result(null, toError(t)), an
\* Err, if get() threw t, and Result(v, null) if get() returned v.
C9_LazyResultNeverThrows ==
    lazyOp = "result" =>
        /\ ~lazyRes.threw
        /\ lazyRet.threw =>
              /\ lazyRes.res.value = Null
              /\ lazyRes.res.error = toError(lazyRet.val)
              /\ isErr(lazyRes.res)
        /\ ~lazyRet.threw =>
              /\ lazyRes.res.value = lazyRet.val
              /\ lazyRes.res.error = Null

\* C9 witness: result() was called, the producer threw the string "boom", and
\* an Err holding an Error of that message was returned.
C9_Witness ==
    /\ lazyOp = "result"
    /\ lazyRet = Throw(Str("boom"))
    /\ ~lazyRes.threw
    /\ lazyRes.res.error = ErrorObj("boom", FreshId)

\* C10: Option.from(v) is Some, not None, and unwraps to v if v is neither
\* null nor undefined, and is None if v is null or undefined.
C10_FromNullish ==
    optOp = "from" =>
        IF optArg \in {Null, Undefined}
        THEN isNone(opt)
        ELSE isSome(opt) /\ ~isNone(opt) /\ OptionUnwrap(opt) = Return(optArg)

\* C11: a.xor(b) is the Some one of a and b when exactly one of them is Some,
\* whichever side it is on, and is None when both or neither are Some; so
\* Option.none().xor(Option.some(x)).unwrap() is x.
C11_XorPicksPresent ==
    optOp = "xor" =>
        IF isSome(optRecv) # isSome(optOther)
        THEN /\ opt = (IF isSome(optRecv) THEN optRecv ELSE optOther)
             /\ OptionUnwrap(opt) = Return(opt.value)
        ELSE isNone(opt)

\* C12 as stated: for a Some Option o and any fn, gn, o.map(fn).map(gn) equals
\* o.map(x => gn(fn(x))) and o.map(fn) is Some(fn(payload)), also when fn
\* returns null; for a None o both sides are None and nothing is invoked.
C12_MapComposition ==
    optOp = "mapTwice" =>
        IF isSome(optRecv)
        THEN /\ opt = optAlt
             /\ optMid = OptionNew(Apply(optGiven[1], optRecv.value))
             /\ isSome(optMid)
        ELSE isNone(opt) /\ isNone(optAlt) /\ optCalls = <<>>

\* C12, amended: for a Some Option o and fn, gn with fn(payload) not null,
\* o.map(fn).map(gn) equals o.map(x => gn(fn(x))), which is
\* Option(gn(fn(payload))), and o.map(fn) is Some(fn(payload)); when
\* fn(payload) is null, o.map(fn) and o.map(fn).map(gn) are None and gn is not
\* invoked; for a None o both sides are None and neither fn nor gn is invoked.
C12_MapCompositionNonNull ==
    optOp = "mapTwice" =>
        LET fn == optGiven[1]
            gn == optGiven[2]
            y == Apply(fn, optRecv.value)
        IN  IF isSome(optRecv)
            THEN /\ optAlt = OptionNew(Apply(gn, y))
                 /\ IF y # Null
                    THEN /\ opt = optAlt
                         /\ optMid = OptionNew(y)
                         /\ isSome(optMid)
                         /\ optCalls = <<fn, gn>>
                    ELSE /\ isNone(optMid)
                         /\ isNone(opt)
                         /\ optCalls = <<fn>>
            ELSE isNone(opt) /\ isNone(optAlt) /\ optCalls = <<>>

\* C12 witness: Some(1).map(x => x).map(x => 0) and Some(1).map(x => 0) are
\* both Some(0).
C12_Witness ==
    /\ optOp = "mapTwice"
    /\ optRecv = OptionSome(Num("1"))
    /\ optGiven = <<"id", "const0">>
    /\ optMid = OptionSome(Num("1"))
    /\ opt = OptionSome(Num("0"))
    /\ optAlt = opt

\* C13: on a Some receiver, and(other) returns other, andThen(fn) returns
\* fn(payload), and or(other) / orElse(fn) return the receiver without invoking
\* fn; on a None receiver, and / andThen return None without invoking fn,
\* or(other) returns other and orElse(fn) returns fn().
C13_ShortCircuit ==
    /\ optOp = "and" =>
          IF isSome(optRecv) THEN opt = optOther ELSE isNone(opt)
    /\ optOp = "andThen" =>
          IF isSome(optRecv)
          THEN opt = ApplyOpt(optGiven[1], optRecv.value) /\ optCalls = optGiven
          ELSE isNone(opt) /\ optCalls = <<>>
    /\ optOp = "or" =>
          IF isSome(optRecv) THEN opt = optRecv ELSE opt = optOther
    /\ optOp = "orElse" =>
          IF isSome(optRecv)
          THEN opt = optRecv /\ optCalls = <<>>
          ELSE opt = ApplyOpt(optGiven[1], Undefined) /\ optCalls = optGiven

\* C13 witness: Some(1).orElse(() => Some(2)) returned the receiver and did
\* not invoke the callback.
C13_Witness ==
    /\ optOp = "orElse"
    /\ optRecv = OptionSome(Num("1"))
    /\ optGiven = <<"some2">>
    /\ optCalls = <<>>
    /\ opt = OptionSome(Num("1"))

\* C14: unwrap() returns the payload of a Some Option and throws on None;
\* expect(message) returns the payload in the same cases and on None throws
\* an Error whose message is the one the caller gave.
C14_UnwrapExpect ==
    /\ optOp = "unwrap" =>
          IF isSome(optRecv)
          THEN optRet = Return(optRecv.value)
          ELSE optRet.threw
    /\ optOp = "expect" =>
          IF isSome(optRecv)
          THEN optRet = Return(optRecv.value) /\ optRet = OptionUnwrap(optRecv)
          ELSE /\ optRet.threw
               /\ OptionUnwrap(optRecv).threw
               /\ optRet.val.type = "Error"
               /\ optRet.val.val = optGiven[1]

\* C14 witness: Option.none().expect("why") threw an Error with message "why".
C14_Witness ==
    /\ optOp = "expect"
    /\ isNone(optRecv)
    /\ optGiven = <<"why">>
    /\ optRet = Throw(ErrorObj("why", FreshId))

\* C15: unwrap() returns the value of a Result whose error is null, and for a
\* Result holding an error throws that very Error object; for Result.err("msg")
\* the thrown Error's message is "msg".
C15_UnwrapThrowsStored ==
    /\ resOp = "unwrap" =>
          IF resRecv.error = Null
          THEN resRet = Return(resRecv.value)
          ELSE resRet = Throw(resRecv.error)
    /\ (resOp = "err" /\ resErrArg.type = "string") =>
          /\ ResultUnwrap(res).threw
          /\ ResultUnwrap(res).val.type = "Error"
          /\ ResultUnwrap(res).val.val = resErrArg.val

\* C15 witness: Result.err(e1).unwrap() threw e1 itself.
C15_Witness ==
    /\ resOp = "unwrap"
    /\ resRecv = ResultErr(E1)
    /\ resRet = Throw(E1)

\* C16: unwrapErr() returns the stored error of a Result that holds one, throws
\* 'Cannot unwrap Ok.' for a Result without an error whatever its (non-null)
\* value is, and never returns null.
C16_UnwrapErr ==
    (resOp = "unwrapErr" /\ (resRecv.value # Null \/ resRecv.error # Null)) =>
        /\ IF resRecv.error # Null
           THEN resRet = Return(resRecv.error)
           ELSE resRet = Throw(ErrorObj("Cannot unwrap Ok.", FreshId))
        /\ resRet # Return(Null)

\* C17: on a receiver holding an error, and(other) and andThen(fn) return an
\* Err with the receiver's error and fn is not invoked; on a receiver without
\* an error (and a non-null value), and(other) returns other and andThen(fn)
\* returns fn(value), so Result.ok(1).andThen(v => Result.err("e")) is an Err.
C17_AndShortCircuit ==
    /\ (resOp = "and" /\ resRecv.error # Null) =>
          res.error = resRecv.error /\ isErr(res)
    /\ (resOp = "and" /\ resRecv.error = Null /\ resRecv.value # Null) =>
          res = resOther
    /\ (resOp = "andThen" /\ resRecv.error # Null) =>
          res.error = resRecv.error /\ isErr(res) /\ resCalls = <<>>
    /\ (resOp = "andThen" /\ resRecv.error = Null /\ resRecv.value # Null) =>
          /\ res = ApplyRes(resGiven[1], resRecv.value)
          /\ resCalls = resGiven
          /\ resGiven = <<"errE">> => isErr(res)

\* C18: for a Result without an error (and a non-null value v), map(fn) is
\* Result(fn(v), null) and mapErr(fn) is Result(v, null) with fn not invoked;
\* for a Result holding an error e, mapErr(fn) is an Err holding fn(e) and
\* map(fn) is an Err holding e itself with fn not invoked.
C18_MapFrame ==
    /\ (resOp = "map" /\ resRecv.error = Null /\ resRecv.value # Null) =>
          /\ res = ResultNew(Apply(resGiven[1], resRecv.value), Null)
          /\ resCalls = resGiven
    /\ (resOp = "map" /\ resRecv.error # Null) =>
          res = ResultNew(Null, resRecv.error) /\ resCalls = <<>>
    /\ (resOp = "mapErr" /\ resRecv.error = Null /\ resRecv.value # Null) =>
          res = ResultNew(resRecv.value, Null) /\ resCalls = <<>>
    /\ (resOp = "mapErr" /\ resRecv.error # Null) =>
          /\ res = ResultNew(Null, ApplyErr(resGiven[1], resRecv.error))
          /\ resCalls = resGiven

\* What an error-or-string is to be stored as: a string s as an Error with
\* message s, an Error object as itself.
C19_Normalized(given, stored) ==
    /\ stored.type = "Error"
    /\ stored.val = given.val
    /\ given.type = "Error" => stored = given

\* C19: Result.err, the Result constructor (through Result.from) and
\* Future.err store a string s as an Error whose message is s and an Error
\* object as the identical object; normalizing a stored error again gives the
\* same object; and a Result derived from a Result holding an error by map,
\* and, andThen or inspect holds that same Error object.
C19_NormalizeUniform ==
    /\ resOp = "err" => C19_Normalized(resErrArg, res.error)
    /\ resOp = "from" =>
          IF resErrArg = Null THEN res.error = Null
          ELSE C19_Normalized(resErrArg, res.error)
    /\ kind = "err" =>
          /\ source.status = "rejected"
          /\ C19_Normalized(futGiven, source.value)
          /\ toError(source.value) = source.value
    /\ res.error # Null => toError(res.error) = res.error
    /\ (resOp \in {"map", "and", "andThen", "inspect"} /\ resRecv.error # Null) =>
          res.error = resRecv.error

\* C19 witness: Future.err("msg") rejected with an Error of message "msg",
\* and Result.err(e1).map(fn) holds e1 itself.
C19_Witness ==
    /\ kind = "err"
    /\ futGiven = Str("msg")
    /\ source = Rejected(ErrorObj("msg", FreshId))
    /\ resOp = "map"
    /\ resRecv = ResultErr(E1)
    /\ res.error = E1

\* C20: in every state of a Future, isFulfilled() is true exactly when the
\* native promise is fulfilled and isRejected() exactly when it is rejected,
\* also when resolve is given a promise and when resolve and reject are both
\* called.
C20_TagAgreesWithNative ==
    /\ isFulfilled <=> native.status = "fulfilled"
    /\ isRejected <=> native.status = "rejected"

\* C21: expect(msg) throws exactly when unwrap() throws and otherwise returns
\* what unwrap() returns; expectErr(msg) throws exactly when unwrapErr() throws
\* and otherwise returns what unwrapErr() returns; what they throw is an Error
\* with the caller's message.
C21_ExpectLikeUnwrap ==
    /\ resOp = "expect" =>
          /\ resRet.threw <=> ResultUnwrap(resRecv).threw
          /\ ~resRet.threw => resRet = ResultUnwrap(resRecv)
          /\ resRet.threw => resRet.val = ErrorObj(resGiven[1], FreshId)
    /\ resOp = "expectErr" =>
          /\ resRet.threw <=> ResultUnwrapErr(resRecv).threw
          /\ ~resRet.threw => resRet = ResultUnwrapErr(resRecv)
          /\ resRet.threw => resRet.val = ErrorObj(resGiven[1], FreshId)

\* C22: once the promise result() returned is fulfilled, the Result it holds
\* agrees with the Future's tag: isOk() is isFulfilled() and isErr() is
\* isRejected(), whatever the fulfilled value and whatever resolve / reject
\* calls the executor made.
C22_ResultAgreesWithTag ==
    resultPromise.status = "fulfilled" =>
        /\ isOk(resultPromise.result) <=> isFulfilled
        /\ isErr(resultPromise.result) <=> isRejected

====
